---------------------------- MODULE Spec2Model ----------------------------
(***************************************************************************)
(* A model of clspv's ReplaceLLVMIntrinsicsPass                            *)
(* (lib/ReplaceLLVMIntrinsicsPass.cpp): the module pass that removes       *)
(* llvm.lifetime.* markers and lowers llvm.fshl, llvm.memset and           *)
(* llvm.memcpy call sites.                                                 *)
(*                                                                         *)
(* Three specifications share the module:                                  *)
(*   Spec       the whole pass (runOnModule) over small input modules;     *)
(*   SpecMatch  the match_types lambda of replaceMemcpy, one loop          *)
(*              iteration per step;                                        *)
(*   SpecFshl   the instruction sequence replaceFshl emits, evaluated      *)
(*              on concrete operands.                                      *)
(***************************************************************************)
EXTENDS Integers, Sequences, FiniteSets, TLC

VARIABLES
  ndebug,   \* TRUE: the build defines NDEBUG (assert() compiles to nothing)
  m,        \* match_types: [dst, src, nd, ns, st], its by-reference arguments
  msize,    \* match_types: the Size argument
  mlast,    \* match_types: which side the last loop iteration descended
  mtie,     \* match_types: whether that iteration compared two equal sizes
  fw,       \* replaceFshl: type->getScalarSizeInBits() of the call's operands
  fhi, flo, fshift,  \* replaceFshl: the run-time values of arg_hi, arg_lo, arg_shift
  fpc,      \* replaceFshl: the emitted instruction to evaluate next
  fval,     \* replaceFshl: the value of each emitted instruction evaluated so far
  fpoison,  \* replaceFshl: the emitted instructions whose value is poison
  funcs,    \* the module's function list (Module &M), in order
  body,     \* the instructions of the module's one function body, in order
  input,    \* the call sites and other users the module came with
  pc,       \* where runOnModule is
  Changed,  \* runOnModule's Changed
  changed,  \* the running lowering's own changed / Changed
  work,     \* WorkList (removeLifetimeDeclarations), intrinsics (replaceFshl)
  fi,       \* the position of  for (auto &F : M)  in replaceMemset, replaceMemcpy
  cur,      \* the declaration whose call sites are being processed
  calls,    \* callsites, CallsToReplace, CallsToReplaceWithSpirvCopyMemory
  forget,   \* BitCastsToForget
  result,   \* what runOnModule returned: "none" until it returns
  mutated,  \* history: the module was changed (something erased or inserted)
  erased,   \* history: the bitcasts erased, in order, one entry per erasure
  lowered,  \* history: the ids of the call sites lowered so far
  culprit,  \* history: the id of the call site the run stopped at (0: none)
  why,      \* history: why the run stopped
  lastMatch, \* history: match_types' arguments when it last returned or stopped
  interleaved \* history: the function list changed while a loop walked it

mvars == <<m, msize, mlast, mtie>>
fvars == <<fw, fhi, flo, fshift, fpc, fval, fpoison>>
pvars == <<funcs, body, input, pc, Changed, changed, work, fi, cur, calls, forget,
           result, mutated, erased, lowered, culprit, why, lastMatch, interleaved>>

(***************************************************************************)
(* Types.  An LLVM type is named by a string; TypeKind, TypeBits and       *)
(* TypeElems give its shape.  Literal LLVM types are uniqued by            *)
(* structure, so equality of names is pointer equality of Type*.           *)
(***************************************************************************)
TypeNames == {"i8", "i32", "a4i32", "a8i8", "s2i32", "v2i32", "a2s2i32"}

TypeKind(t) ==
  CASE t \in {"i8", "i32"} -> "int"
    [] t \in {"a4i32", "a8i8", "a2s2i32"} -> "array"
    [] t = "s2i32" -> "struct"
    [] t = "v2i32" -> "vector"

TypeBits(t) == IF t = "i8" THEN 8 ELSE 32

\* The contained types, in order: array elements, struct fields, vector lanes.
TypeElems(t) ==
  CASE t = "a4i32"   -> <<"i32", "i32", "i32", "i32">>
    [] t = "a8i8"    -> <<"i8", "i8", "i8", "i8", "i8", "i8", "i8", "i8">>
    [] t = "s2i32"   -> <<"i32", "i32">>
    [] t = "v2i32"   -> <<"i32", "i32">>
    [] t = "a2s2i32" -> <<"s2i32", "s2i32">>
    [] OTHER         -> <<>>

Max(a, b) == IF a >= b THEN a ELSE b

RoundUp(x, a) == ((x + a - 1) \div a) * a

RECURSIVE SizeInBits(_), ABIAlign(_), AllocSize(_), StructBytes(_, _, _)

\* DataLayout::getABITypeAlignment, in bytes.
ABIAlign(t) ==
  CASE TypeKind(t) = "int"    -> TypeBits(t) \div 8
    [] TypeKind(t) = "array"  -> ABIAlign(TypeElems(t)[1])
    [] TypeKind(t) = "vector" -> SizeInBits(t) \div 8
    [] TypeKind(t) = "struct" ->
         LET RECURSIVE MaxAlign(_)
             MaxAlign(i) == IF i = 0 THEN 1
                            ELSE Max(ABIAlign(TypeElems(t)[i]), MaxAlign(i - 1))
         IN MaxAlign(Len(TypeElems(t)))

\* DataLayout::getTypeAllocSize, in bytes: the store size padded to the alignment.
AllocSize(t) == RoundUp((SizeInBits(t) + 7) \div 8, ABIAlign(t))

\* StructLayout: the byte offset after laying out fields i.. of t from offset off.
StructBytes(t, i, off) ==
  IF i > Len(TypeElems(t)) THEN RoundUp(off, ABIAlign(t))
  ELSE StructBytes(t, i + 1,
         RoundUp(off, ABIAlign(TypeElems(t)[i])) + AllocSize(TypeElems(t)[i]))

\* DataLayout::getTypeSizeInBits.
SizeInBits(t) ==
  CASE TypeKind(t) = "int"    -> TypeBits(t)
    [] TypeKind(t) = "array"  -> Len(TypeElems(t)) * AllocSize(TypeElems(t)[1]) * 8
    [] TypeKind(t) = "vector" -> Len(TypeElems(t)) * SizeInBits(TypeElems(t)[1])
    [] TypeKind(t) = "struct" -> StructBytes(t, 1, 0) * 8

(***************************************************************************)
(* match_types (replaceMemcpy, lines 215-257).                             *)
(***************************************************************************)
\* descend_type can go one level into InType (it is not the assert(false) branch).
CanDescend(t) == TypeKind(t) \in {"struct", "array", "vector"}

\* descend_type: struct -> field 0, array -> element, vector -> lane; any other
\* type is returned as it came (after the assert(false), when asserts are off).
DescendType(t) ==
  IF TypeKind(t) = "struct" THEN TypeElems(t)[1]
  ELSE IF TypeKind(t) = "array" THEN TypeElems(t)[1]
  ELSE IF TypeKind(t) = "vector" THEN TypeElems(t)[1]
  ELSE t

\* What descend_type's assert(false) does to the call: the process aborts with
\* asserts on; with NDEBUG the type comes back unchanged, so the enclosing loop
\* runs again on the same two types without end.
NoDescent(mt, nd) == [mt EXCEPT !.st = IF nd THEN "hang" ELSE "abort"]

DescendSrc(mt, nd) ==
  IF CanDescend(mt.src)
  THEN [mt EXCEPT !.src = DescendType(mt.src), !.ns = @ + 1]
  ELSE NoDescent(mt, nd)

DescendDst(mt, nd) ==
  IF CanDescend(mt.dst)
  THEN [mt EXCEPT !.dst = DescendType(mt.dst), !.nd = @ + 1]
  ELSE NoDescent(mt, nd)

\* The tie-break of the first loop, destination first.
MatchLoopStep_DstFirst(mt, nd) ==
  IF mt.src = mt.dst THEN [mt EXCEPT !.st = "shrink"]
  ELSE IF SizeInBits(mt.dst) >= SizeInBits(mt.src) THEN DescendDst(mt, nd)
  ELSE DescendSrc(mt, nd)

\* The first loop exits as soon as the two sizes agree, whatever the types.
MatchLoopStep_SizeOnly(mt, nd) ==
  IF SizeInBits(mt.src) = SizeInBits(mt.dst) THEN [mt EXCEPT !.st = "shrink"]
  ELSE IF SizeInBits(mt.src) >= SizeInBits(mt.dst) THEN DescendSrc(mt, nd)
  ELSE DescendDst(mt, nd)

\* One pass through  while (*SrcElemTy != *DstElemTy) { ... }  (lines 233-247).
MatchLoopStep(mt, nd) ==
  IF mt.src = mt.dst THEN [mt EXCEPT !.st = "shrink"]
  ELSE IF SizeInBits(mt.src) >= SizeInBits(mt.dst) THEN DescendSrc(mt, nd)
  ELSE IF SizeInBits(mt.dst) >= SizeInBits(mt.src) THEN DescendDst(mt, nd)
  ELSE [mt EXCEPT !.st = IF nd THEN "hang" ELSE "abort"]

\* One pass through  while (Size < DstElemSize) { ... }  (lines 249-256).
ShrinkLoopStep(mt, size, nd) ==
  IF size < SizeInBits(mt.dst) \div 8
  THEN IF CanDescend(mt.dst)
       THEN [mt EXCEPT !.dst = DescendType(mt.dst), !.src = DescendType(mt.src),
                       !.nd = @ + 1, !.ns = @ + 1]
       ELSE NoDescent(mt, nd)
  ELSE [mt EXCEPT !.st = "ok"]

MatchStart(dst0, src0) == [dst |-> dst0, src |-> src0, nd |-> 0, ns |-> 0, st |-> "match"]

RECURSIVE MatchRun(_, _, _)
MatchRun(mt, size, nd) ==
  IF mt.st = "match" THEN MatchRun(MatchLoopStep(mt, nd), size, nd)
  ELSE IF mt.st = "shrink" THEN MatchRun(ShrinkLoopStep(mt, size, nd), size, nd)
  ELSE mt

\* match_types(CI, Size, &DstElemTy, &SrcElemTy, &NumDstUnpackings, &NumSrcUnpackings)
MatchTypes(dst0, src0, size, nd) == MatchRun(MatchStart(dst0, src0), size, nd)

(***************************************************************************)
(* replaceFshl (lines 69-137): the values of the emitted instructions.     *)
(* A w-bit value is the set of its one bits, a subset of 0..w-1, so that   *)
(* 32- and 64-bit operands keep their width.                               *)
(***************************************************************************)
BitPositions == 0 .. 7

\* ConstantInt::get(type, n) for 0 <= n < 256: the bits of n.
ToBits(n) == {i \in BitPositions : (n \div (2 ^ i)) % 2 = 1}

\* The number a value denotes, for values below 256.
RECURSIVE ToNat(_)
ToNat(v) == IF v = {} THEN 0
            ELSE LET i == CHOOSE j \in v : TRUE IN (2 ^ i) + ToNat(v \ {i})

AllOnes(w) == 0 .. (w - 1)

\* The width check of lines 97-100.
ValidFshlWidth(w) == ~((w # 8) /\ (w # 16) /\ (w # 32) /\ (w # 64))

\* mod_mask = ConstantInt::get(type, type->getScalarSizeInBits() - 1)
ModMask(w) == ToBits(w - 1)

\* scalar_size = ConstantInt::get(type, type->getScalarSizeInBits())
ScalarSize(w) == ToBits(w)

\* Instruction::And
And(a, b) == a \cap b

\* Instruction::Or
Or(a, b) == a \cup b

\* Instruction::Sub on operands below 256, modulo 2^w: a negative difference d
\* wraps to the complement of -d - 1.
Sub(a, b, w) ==
  LET d == ToNat(a) - ToNat(b)
  IN IF d >= 0 THEN ToBits(d) ELSE AllOnes(w) \ ToBits((-d) - 1)

\* A shift amount is in range when it is below the bit width.
ShiftInRange(amt, w) == (\A i \in amt : i \in BitPositions) /\ ToNat(amt) < w

\* Instruction::Shl by an in-range amount.
Shl(v, amt, w) == {i \in AllOnes(w) : i >= ToNat(amt) /\ (i - ToNat(amt)) \in v}

\* Instruction::LShr by an in-range amount.
LShr(v, amt, w) == {i \in AllOnes(w) : (i + ToNat(amt)) \in v}

\* The operands sampled for a width.
ValueSamples(w) ==
  {{}, {0}, {w - 1}, AllOnes(w), {i \in AllOnes(w) : i % 2 = 0}}

ShiftSamples(w) ==
  {ToBits(k) : k \in {0, 1, 3, w - 1, w, w + 1}} \cup {AllOnes(w)}

\* What an instruction whose value is poison may yield: any w-bit value; these
\* are the ones sampled.
PoisonSamples(w) == ValueSamples(w) \cup {fhi, flo, fhi \cup flo}

FshlWidths == {8, 16, 24, 32, 64}

NoValues == [and |-> {}, sub |-> {}, shl |-> {}, lshr |-> {}, or |-> {}]

\* replaceFshl is not running (the other specifications).
FshlIdle ==
  /\ fw = 0 /\ fhi = {} /\ flo = {} /\ fshift = {}
  /\ fpc = "idle" /\ fval = NoValues /\ fpoison = {}

(***************************************************************************)
(* The module: functions, values and instructions.                         *)
(***************************************************************************)
\* A function, named prefix + a suffix told apart by n (the overload of an
\* intrinsic; the number LLVM appends to a name already taken).
Fn(prefix, n) == [prefix |-> prefix, n |-> n]

NoFunc == Fn("", 0)

\* F.getName().startswith(prefix)
StartsWith(f, prefix) == f.prefix = prefix

\* The four families of the pass.
Families == {"llvm.lifetime.", "llvm.fshl", "llvm.memset", "llvm.memcpy"}

\* clspv::CopyMemoryFunction()
CopyMemoryFunction == "spirv.copy_memory"

\* A value: a pointer the function body is given (an alloca, an argument),
\* or the bitcast instruction of one to i8*.
Ref(k, p) == [k |-> k, p |-> p]

NoRef == Ref("none", "")

Pointers == {"pa", "pb", "pc", "pd", "pe"}

\* Ptr->getType()->getPointerElementType()
PointeeOf(p) ==
  CASE p = "pa" -> "i32"
    [] p = "pb" -> "a4i32"
    [] p = "pc" -> "s2i32"
    [] p = "pd" -> "a8i8"
    [] p = "pe" -> "i8"

\* An instruction.  id: an input call site's identity; origin: the id of the
\* call site an emitted instruction was emitted for.
Blank ==
  [id |-> 0, op |-> "", callee |-> NoFunc, dst |-> NoRef, src |-> NoRef,
   n |-> 0, fill |-> 0, align |-> 0, path |-> <<>>, ty |-> "", origin |-> 0]

BitCast(p) == [Blank EXCEPT !.op = "bitcast", !.src = Ref("ptr", p)]

\* The values instruction i uses.
Operands(i) == {i.dst, i.src} \ {NoRef}

\* The bitcast of p is (still) an instruction of the body.
CastPresent(b, p) == \E k \in 1 .. Len(b) : b[k] = BitCast(p)

\* Some instruction of b uses the bitcast of p.
CastUsed(b, p) == \E k \in 1 .. Len(b) : Ref("cast", p) \in Operands(b[k])

\* F.users() that are CallInst, in use-list order (here: the order of the body).
RECURSIVE CallsTo(_, _)
CallsTo(b, f) ==
  IF b = <<>> THEN <<>>
  ELSE IF Head(b).op = "call" /\ Head(b).callee = f
       THEN <<Head(b).id>> \o CallsTo(Tail(b), f)
       ELSE CallsTo(Tail(b), f)

\* The position of input call site id in b (0: erased).
RECURSIVE PosOf(_, _)
PosOf(b, id) ==
  IF b = <<>> THEN 0
  ELSE IF Head(b).id = id THEN 1
  ELSE LET k == PosOf(Tail(b), id) IN IF k = 0 THEN 0 ELSE 1 + k

RECURSIVE Without(_, _)
\* b without the instructions in the set gone.
Without(b, gone) ==
  IF b = <<>> THEN <<>>
  ELSE IF Head(b) \in gone THEN Without(Tail(b), gone)
  ELSE <<Head(b)>> \o Without(Tail(b), gone)

\* The instructions new inserted before call site id, and the call site erased.
ReplaceCall(b, id, new) ==
  LET k == PosOf(b, id)
  IN SubSeq(b, 1, k - 1) \o new \o SubSeq(b, k + 1, Len(b))

\* The instructions new inserted before call site id, which stays.
InsertBefore(b, id, new) ==
  LET k == PosOf(b, id)
  IN SubSeq(b, 1, k - 1) \o new \o SubSeq(b, k, Len(b))

\* Function::eraseFromParent
RECURSIVE EraseFunc(_, _)
EraseFunc(fs, f) ==
  IF fs = <<>> THEN <<>>
  ELSE IF Head(fs) = f THEN Tail(fs)
  ELSE <<Head(fs)>> \o EraseFunc(Tail(fs), f)

\* The functions of fs whose name starts with prefix, in order.
RECURSIVE Named(_, _)
Named(fs, prefix) ==
  IF fs = <<>> THEN <<>>
  ELSE IF StartsWith(Head(fs), prefix) THEN <<Head(fs)>> \o Named(Tail(fs), prefix)
  ELSE Named(Tail(fs), prefix)

Range(q) == {q[i] : i \in DOMAIN q}

\* The input call site with this id.
Site(id) == CHOOSE c \in Range(input) : c.id = id

(***************************************************************************)
(* The input modules.                                                      *)
(***************************************************************************)
MaxCalls == 2

LifetimeSites ==
  {[Blank EXCEPT !.op = "call", !.callee = Fn("llvm.lifetime.", k),
                 !.dst = Ref("cast", "pa"), !.n = 4] : k \in {0, 1}}

\* An instruction the pass does not touch that uses a bitcast.
UseSites == {[Blank EXCEPT !.op = "use", !.dst = Ref("cast", "pa")]}

FshlSites ==
  {[Blank EXCEPT !.op = "call", !.callee = Fn("llvm.fshl", w), !.n = w] :
     w \in {8, 24, 32}}

\* llvm.memset(dest, fill, n, isvolatile): dest is a bitcast, or an i8* as it is.
MemsetSites ==
  {[Blank EXCEPT !.op = "call", !.callee = Fn("llvm.memset", 0),
                 !.dst = d, !.fill = x[1], !.n = x[2]] :
     d \in {Ref("cast", "pa"), Ref("cast", "pb"), Ref("ptr", "pe")},
     x \in {<<0, 0>>, <<0, 6>>, <<0, 16>>, <<1, 16>>}}

\* llvm.memcpy(dest, src, n, isvolatile) with its destination alignment.
MemcpySites ==
  {[Blank EXCEPT !.op = "call", !.callee = Fn("llvm.memcpy", 1),
                 !.dst = Ref("cast", x[1]), !.src = Ref("cast", x[2]),
                 !.n = sz, !.align = al] :
     x \in {<<"pa", "pa">>, <<"pb", "pa">>, <<"pd", "pc">>, <<"pb", "pc">>},
     sz \in {8, 16}, al \in {1, 4}}
  \cup
  {[Blank EXCEPT !.op = "call", !.callee = Fn("llvm.memcpy", 2),
                 !.dst = Ref("cast", x[1]), !.src = Ref("cast", x[2]),
                 !.n = 8, !.align = 4] :
     x \in {<<"pa", "pa">>, <<"pb", "pa">>, <<"pd", "pc">>, <<"pb", "pc">>}}
  \cup
  {[Blank EXCEPT !.op = "call", !.callee = Fn("llvm.memcpy", 1),
                 !.dst = Ref("ptr", "pe"), !.src = Ref("cast", "pa"),
                 !.n = 8, !.align = 1]}

Sites == LifetimeSites \cup UseSites \cup FshlSites \cup MemsetSites \cup MemcpySites

\* The declarations a module may hold, in the order of its function list.
DeclOrder ==
  <<Fn("kernel", 0), Fn("llvm.lifetime.", 0), Fn("llvm.lifetime.", 1),
    Fn("llvm.fshl", 8), Fn("llvm.fshl", 24), Fn("llvm.fshl", 32),
    Fn("llvm.memset", 0), Fn("llvm.memcpy", 1), Fn("llvm.memcpy", 2)>>

PointerOrder == <<"pa", "pb", "pc", "pd", "pe">>

RECURSIVE Keep(_, _)
Keep(q, S) ==
  IF q = <<>> THEN <<>>
  ELSE IF Head(q) \in S THEN <<Head(q)>> \o Keep(Tail(q), S)
  ELSE Keep(Tail(q), S)

RECURSIVE CastsOf(_)
CastsOf(ps) == IF ps = <<>> THEN <<>> ELSE <<BitCast(Head(ps))>> \o CastsOf(Tail(ps))

\* The module with these call sites: its declarations, and its body (the
\* bitcasts the sites use, then the sites).
InputFuncs(sites) ==
  Keep(DeclOrder, {Fn("kernel", 0)} \cup {sites[i].callee : i \in DOMAIN sites})

InputBody(sites) ==
  CastsOf(Keep(PointerOrder,
               {r.p : r \in {x \in UNION {Operands(sites[i]) : i \in DOMAIN sites} :
                               x.k = "cast"}}))
  \o sites

\* runOnModule has not been called (the other specifications).
PassIdle ==
  /\ funcs = <<>> /\ body = <<>> /\ input = <<>> /\ pc = "idle"
  /\ Changed = FALSE /\ changed = FALSE /\ work = <<>> /\ fi = 0 /\ cur = NoFunc
  /\ calls = <<>> /\ forget = {} /\ result = "none" /\ mutated = FALSE
  /\ erased = <<>> /\ lowered = {} /\ culprit = 0 /\ why = ""
  /\ lastMatch = MatchStart("i8", "i8") /\ interleaved = FALSE

(***************************************************************************)
(* SpecMatch: match_types on every pair of types and every sampled Size.   *)
(***************************************************************************)
CopySizes == {0, 4, 8, 16, 32}

InitMatch ==
  /\ ndebug \in BOOLEAN
  /\ FshlIdle
  /\ PassIdle
  /\ \E d \in TypeNames, s \in TypeNames : m = MatchStart(d, s)
  /\ msize \in CopySizes
  /\ mlast = "none"
  /\ mtie = FALSE

\* Which side a step from a to b descended.
Descended(a, b) ==
  IF b.nd > a.nd /\ b.ns > a.ns THEN "both"
  ELSE IF b.nd > a.nd THEN "dst"
  ELSE IF b.ns > a.ns THEN "src"
  ELSE "none"

\* An iteration of the first loop: the types differ.
MatchIter ==
  /\ m.st = "match"
  /\ m.src # m.dst
  /\ m' = MatchLoopStep(m, ndebug)
  /\ mlast' = Descended(m, m')
  /\ mtie' = (SizeInBits(m.src) = SizeInBits(m.dst))
  /\ UNCHANGED <<ndebug, msize, fvars, pvars>>

\* The first loop's exit: the types are equal.
MatchConverged ==
  /\ m.st = "match"
  /\ m.src = m.dst
  /\ m' = MatchLoopStep(m, ndebug)
  /\ mlast' = "none"
  /\ mtie' = FALSE
  /\ UNCHANGED <<ndebug, msize, fvars, pvars>>

\* An iteration of the second loop: Size is below the element size.
ShrinkIter ==
  /\ m.st = "shrink"
  /\ msize < SizeInBits(m.dst) \div 8
  /\ m' = ShrinkLoopStep(m, msize, ndebug)
  /\ mlast' = Descended(m, m')
  /\ mtie' = FALSE
  /\ UNCHANGED <<ndebug, msize, fvars, pvars>>

\* The second loop's exit and the lambda's return.
MatchReturn ==
  /\ m.st = "shrink"
  /\ ~(msize < SizeInBits(m.dst) \div 8)
  /\ m' = ShrinkLoopStep(m, msize, ndebug)
  /\ mlast' = "none"
  /\ mtie' = FALSE
  /\ UNCHANGED <<ndebug, msize, fvars, pvars>>

NextMatch == MatchIter \/ MatchConverged \/ ShrinkIter \/ MatchReturn

(***************************************************************************)
(* SpecFshl: one llvm.fshl call site, lowered and evaluated on operands.   *)
(***************************************************************************)
MatchIdle ==
  /\ m = MatchStart("i8", "i8") /\ msize = 0 /\ mlast = "none" /\ mtie = FALSE

InitFshl ==
  /\ ndebug \in BOOLEAN
  /\ MatchIdle
  /\ PassIdle
  /\ fw \in FshlWidths
  /\ fhi \in ValueSamples(fw)
  /\ flo \in ValueSamples(fw)
  /\ fshift \in ShiftSamples(fw)
  /\ fpc = "check"
  /\ fval = NoValues
  /\ fpoison = {}

\* Lines 96-103: a width outside {8,16,32,64} reaches llvm_unreachable.
FshlRejectWidth ==
  /\ fpc = "check"
  /\ ~ValidFshlWidth(fw)
  /\ fpc' = "aborted"
  /\ UNCHANGED <<ndebug, mvars, pvars, fw, fhi, flo, fshift, fval, fpoison>>

\* With NDEBUG llvm_unreachable is __builtin_unreachable: the compiler may drop
\* the check, and the lowering goes on with the unsupported width.
FshlIgnoreWidth ==
  /\ fpc = "check"
  /\ ~ValidFshlWidth(fw)
  /\ ndebug
  /\ fpc' = "and"
  /\ UNCHANGED <<ndebug, mvars, pvars, fw, fhi, flo, fshift, fval, fpoison>>

FshlAcceptWidth ==
  /\ fpc = "check"
  /\ ValidFshlWidth(fw)
  /\ fpc' = "and"
  /\ UNCHANGED <<ndebug, mvars, pvars, fw, fhi, flo, fshift, fval, fpoison>>

\* shift_amount = and arg_shift, mod_mask  (lines 111-113)
EvalShiftAmount ==
  /\ fpc = "and"
  /\ fval' = [fval EXCEPT !.and = And(fshift, ModMask(fw))]
  /\ fpc' = "sub"
  /\ UNCHANGED <<ndebug, mvars, pvars, fw, fhi, flo, fshift, fpoison>>

\* down_amount = sub scalar_size, shift_amount  (lines 116-118)
EvalDownAmount ==
  /\ fpc = "sub"
  /\ fval' = [fval EXCEPT !.sub = Sub(ScalarSize(fw), fval.and, fw)]
  /\ fpc' = "shl"
  /\ UNCHANGED <<ndebug, mvars, pvars, fw, fhi, flo, fshift, fpoison>>

\* hi_bits = shl arg_hi, shift_amount  (lines 121-122)
EvalHiBits ==
  /\ fpc = "shl"
  /\ IF ShiftInRange(fval.and, fw)
     THEN /\ fval' = [fval EXCEPT !.shl = Shl(fhi, fval.and, fw)]
          /\ fpoison' = fpoison
     ELSE /\ \E v \in PoisonSamples(fw) : fval' = [fval EXCEPT !.shl = v]
          /\ fpoison' = fpoison \cup {"shl"}
  /\ fpc' = "lshr"
  /\ UNCHANGED <<ndebug, mvars, pvars, fw, fhi, flo, fshift>>

\* lo_bits = lshr arg_lo, down_amount  (lines 123-124); a shift by the bit
\* width or more is poison.
EvalLoBits ==
  /\ fpc = "lshr"
  /\ IF ShiftInRange(fval.sub, fw)
     THEN /\ fval' = [fval EXCEPT !.lshr = LShr(flo, fval.sub, fw)]
          /\ fpoison' = fpoison
     ELSE /\ \E v \in PoisonSamples(fw) : fval' = [fval EXCEPT !.lshr = v]
          /\ fpoison' = fpoison \cup {"lshr"}
  /\ fpc' = "or"
  /\ UNCHANGED <<ndebug, mvars, pvars, fw, fhi, flo, fshift>>

\* result = or lo_bits, hi_bits  (lines 125-126), which replaces the call; an
\* or of a poison operand is poison.
EvalResult ==
  /\ fpc = "or"
  /\ IF fpoison \cap {"shl", "lshr"} = {}
     THEN /\ fval' = [fval EXCEPT !.or = Or(fval.lshr, fval.shl)]
          /\ fpoison' = fpoison
     ELSE /\ \E v \in PoisonSamples(fw) : fval' = [fval EXCEPT !.or = v]
          /\ fpoison' = fpoison \cup {"or"}
  /\ fpc' = "done"
  /\ UNCHANGED <<ndebug, mvars, pvars, fw, fhi, flo, fshift>>

NextFshl ==
  \/ FshlRejectWidth \/ FshlIgnoreWidth \/ FshlAcceptWidth
  \/ EvalShiftAmount \/ EvalDownAmount \/ EvalHiBits \/ EvalLoBits \/ EvalResult

vars == <<ndebug, mvars, fvars, pvars>>

(***************************************************************************)
(* Spec: runOnModule (lines 56-67) over the input modules.                 *)
(***************************************************************************)
Init ==
  /\ ndebug \in BOOLEAN
  /\ MatchIdle
  /\ FshlIdle
  /\ \E k \in 0 .. MaxCalls : \E sites \in [1 .. k -> Sites] :
       input = [i \in 1 .. k |-> [sites[i] EXCEPT !.id = i]]
  /\ funcs = InputFuncs(input)
  /\ body = InputBody(input)
  /\ pc = "lifetime"
  /\ Changed = FALSE /\ changed = FALSE /\ work = <<>> /\ fi = 0 /\ cur = NoFunc
  /\ calls = <<>> /\ forget = {} /\ result = "none" /\ mutated = FALSE
  /\ erased = <<>> /\ lowered = {} /\ culprit = 0 /\ why = ""
  /\ lastMatch = MatchStart("i8", "i8") /\ interleaved = FALSE

\* The process stops: llvm_unreachable, a failed assert, a crash.
Stop(reason, id) == pc' = "aborted" /\ why' = reason /\ culprit' = id

(***************************************************************************)
(* removeLifetimeDeclarations (lines 424-450).                             *)
(***************************************************************************)
\* Lines 430-435: the declarations are collected before anything is erased.
LifetimeCollect ==
  /\ pc = "lifetime"
  /\ work' = Named(funcs, "llvm.lifetime.")
  /\ changed' = FALSE
  /\ pc' = "lt_loop"
  /\ UNCHANGED <<ndebug, mvars, fvars, funcs, body, input, Changed, fi, cur, calls,
                 forget, result, mutated, erased, lowered, culprit, why, lastMatch,
                 interleaved>>

\* Lines 437-447, one declaration: its users are copied, every call among them
\* is erased, then the declaration.
LifetimeRemove ==
  /\ pc = "lt_loop"
  /\ work # <<>>
  /\ changed' = TRUE
  /\ body' = Without(body, {body[k] : k \in {j \in 1 .. Len(body) :
                              body[j].op = "call" /\ body[j].callee = Head(work)}})
  /\ funcs' = EraseFunc(funcs, Head(work))
  /\ work' = Tail(work)
  /\ mutated' = TRUE
  /\ UNCHANGED <<ndebug, mvars, fvars, input, pc, Changed, fi, cur, calls, forget,
                 result, erased, lowered, culprit, why, lastMatch, interleaved>>

\* Line 449, and line 61 of runOnModule.
LifetimeReturn ==
  /\ pc = "lt_loop"
  /\ work = <<>>
  /\ Changed' = (Changed \/ changed)
  /\ pc' = "fshl"
  /\ UNCHANGED <<ndebug, mvars, fvars, funcs, body, input, changed, work, fi, cur,
                 calls, forget, result, mutated, erased, lowered, culprit, why,
                 lastMatch, interleaved>>

(***************************************************************************)
(* replaceFshl (lines 69-137).                                             *)
(***************************************************************************)
\* The five instructions of lines 111-126, in the order they are inserted.
FshlSeq(c) ==
  [k \in 1 .. 5 |->
     [Blank EXCEPT !.op = <<"and", "sub", "shl", "lshr", "or">>[k],
                   !.n = c.n, !.origin = c.id]]

\* Lines 72-78.
FshlCollect ==
  /\ pc = "fshl"
  /\ work' = Named(funcs, "llvm.fshl")
  /\ changed' = FALSE
  /\ pc' = "fshl_func"
  /\ UNCHANGED <<ndebug, mvars, fvars, funcs, body, input, Changed, fi, cur, calls,
                 forget, result, mutated, erased, lowered, culprit, why, lastMatch,
                 interleaved>>

\* Lines 80-87: the call sites of one declaration are collected.
FshlSnapshot ==
  /\ pc = "fshl_func"
  /\ work # <<>>
  /\ cur' = Head(work)
  /\ calls' = CallsTo(body, Head(work))
  /\ pc' = "fshl_calls"
  /\ UNCHANGED <<ndebug, mvars, fvars, funcs, body, input, Changed, changed, work, fi,
                 forget, result, mutated, erased, lowered, culprit, why, lastMatch,
                 interleaved>>

\* Lines 96-103: llvm_unreachable on a width outside {8,16,32,64}.
FshlBadWidth ==
  /\ pc = "fshl_calls"
  /\ calls # <<>>
  /\ ~ValidFshlWidth(Site(Head(calls)).n)
  /\ Stop("width", Head(calls))
  /\ UNCHANGED <<ndebug, mvars, fvars, funcs, body, input, Changed, changed, work, fi,
                 cur, calls, forget, result, mutated, erased, lowered, lastMatch,
                 interleaved>>

\* Lines 105-130: one call site is replaced by the five instructions.  With
\* NDEBUG the width check may have been compiled away (FshlIgnoreWidth).
FshlLowerCall ==
  /\ pc = "fshl_calls"
  /\ calls # <<>>
  /\ ValidFshlWidth(Site(Head(calls)).n) \/ ndebug
  /\ changed' = TRUE
  /\ body' = ReplaceCall(body, Head(calls), FshlSeq(Site(Head(calls))))
  /\ lowered' = lowered \cup {Head(calls)}
  /\ calls' = Tail(calls)
  /\ mutated' = TRUE
  /\ UNCHANGED <<ndebug, mvars, fvars, funcs, input, pc, Changed, work, fi, cur,
                 forget, result, erased, culprit, why, lastMatch, interleaved>>

\* Line 133: the declaration is erased, with or without call sites.
FshlEraseDecl ==
  /\ pc = "fshl_calls"
  /\ calls = <<>>
  /\ funcs' = EraseFunc(funcs, cur)
  /\ work' = Tail(work)
  /\ cur' = NoFunc
  /\ mutated' = TRUE
  /\ pc' = "fshl_func"
  /\ UNCHANGED <<ndebug, mvars, fvars, body, input, Changed, changed, fi, calls,
                 forget, result, erased, lowered, culprit, why, lastMatch, interleaved>>

\* Line 136, and line 62 of runOnModule.
FshlReturn ==
  /\ pc = "fshl_func"
  /\ work = <<>>
  /\ Changed' = (Changed \/ changed)
  /\ changed' = FALSE
  /\ fi' = 1
  /\ pc' = "memset"
  /\ UNCHANGED <<ndebug, mvars, fvars, funcs, body, input, work, cur, calls, forget,
                 result, mutated, erased, lowered, culprit, why, lastMatch,
                 interleaved>>

(***************************************************************************)
(* replaceMemset (lines 139-204).                                          *)
(***************************************************************************)
Store(p, at, t, id) ==
  [Blank EXCEPT !.op = "store", !.dst = Ref("ptr", p), !.path = <<at>>,
                !.ty = t, !.origin = id]

Gep(p, path, t, id) ==
  [Blank EXCEPT !.op = "gep", !.src = Ref("ptr", p), !.path = path,
                !.ty = t, !.origin = id]

\* Lines 188-191: store i of num, Ptr being element `at` of the destination.
RECURSIVE MemsetRest(_, _, _, _)
MemsetRest(c, i, num, at) ==
  IF i < num
  THEN <<Gep(c.dst.p, <<at + 1>>, PointeeOf(c.dst.p), c.id),
         Store(c.dst.p, at + 1, PointeeOf(c.dst.p), c.id)>>
       \o MemsetRest(c, i + 1, num, at + 1)
  ELSE <<>>

\* Lines 175-192: the stores (and address computations) emitted for call site c.
MemsetStores(c) ==
  LET num == c.n \div AllocSize(PointeeOf(c.dst.p))
  IN <<Store(c.dst.p, 0, PointeeOf(c.dst.p), c.id)>>
     \o (IF num # 0 THEN MemsetRest(c, 1, num, 0) ELSE <<>>)

\* The divisibility assert placed after the call site has been replaced.
MemsetLower_CheckLate(b, c, nd) ==
  LET size == AllocSize(PointeeOf(c.dst.p))
  IN [body |-> ReplaceCall(b, c.id, MemsetStores(c)),
      why |-> IF ~nd /\ c.n # (c.n \div size) * size THEN "uneven" ELSE ""]

\* Lines 164-194 on call site c of body b: the assert of line 176, then the
\* stores inserted before the call and the call erased.
MemsetLower(b, c, nd) ==
  LET size == AllocSize(PointeeOf(c.dst.p))
  IN IF ~nd /\ c.n # (c.n \div size) * size
     THEN [body |-> b, why |-> "uneven"]
     ELSE [body |-> ReplaceCall(b, c.id, MemsetStores(c)), why |-> ""]

\* The first of the call sites ids whose initializer is not the constant 0.
RECURSIVE FirstNonZero(_)
FirstNonZero(ids) ==
  IF ids = <<>> THEN 0
  ELSE IF Site(Head(ids)).fill # 0 THEN Head(ids)
  ELSE FirstNonZero(Tail(ids))

\* for (auto &F : M): F is not an llvm.memset declaration.
MemsetSkip ==
  /\ pc = "memset"
  /\ fi <= Len(funcs)
  /\ ~StartsWith(funcs[fi], "llvm.memset")
  /\ fi' = fi + 1
  /\ UNCHANGED <<ndebug, mvars, fvars, funcs, body, input, pc, Changed, changed, work,
                 cur, calls, forget, result, mutated, erased, lowered, culprit, why,
                 lastMatch, interleaved>>

\* Lines 147-161 stop at a call site whose initializer is not 0.
MemsetBadFill ==
  /\ pc = "memset"
  /\ fi <= Len(funcs)
  /\ StartsWith(funcs[fi], "llvm.memset")
  /\ FirstNonZero(CallsTo(body, funcs[fi])) # 0
  /\ Stop("fill", FirstNonZero(CallsTo(body, funcs[fi])))
  /\ UNCHANGED <<ndebug, mvars, fvars, funcs, body, input, Changed, changed, work, fi,
                 cur, calls, forget, result, mutated, erased, lowered, lastMatch,
                 interleaved>>

\* Lines 147-161: every call site of F is checked and collected.  With NDEBUG
\* the llvm_unreachable may have been compiled away with its test.
MemsetScan ==
  /\ pc = "memset"
  /\ fi <= Len(funcs)
  /\ StartsWith(funcs[fi], "llvm.memset")
  /\ FirstNonZero(CallsTo(body, funcs[fi])) = 0 \/ ndebug
  /\ cur' = funcs[fi]
  /\ calls' = CallsTo(body, funcs[fi])
  /\ pc' = "ms_calls"
  /\ UNCHANGED <<ndebug, mvars, fvars, funcs, body, input, Changed, changed, work, fi,
                 forget, result, mutated, erased, lowered, culprit, why, lastMatch,
                 interleaved>>

\* Reading the destination operand of a call site whose bitcast an earlier
\* call site's lowering erased is a use after free: it may crash.
MemsetUseAfterFree ==
  /\ pc = "ms_calls"
  /\ calls # <<>>
  /\ Site(Head(calls)).dst.k = "cast"
  /\ ~CastPresent(body, Site(Head(calls)).dst.p)
  /\ Stop("crash", Head(calls))
  /\ UNCHANGED <<ndebug, mvars, fvars, funcs, body, input, Changed, changed, work, fi,
                 cur, calls, forget, result, mutated, erased, lowered, lastMatch,
                 interleaved>>

\* Lines 163-199, one call site: lowered, erased, and its bitcast erased at
\* once.  Erasing a value that still has uses fails the assert of its
\* destructor; with NDEBUG the remaining users keep a dangling operand.
MemsetLowerCall ==
  /\ pc = "ms_calls"
  /\ calls # <<>>
  /\ LET c == Site(Head(calls))
         r == MemsetLower(body, c, ndebug)
         cast == c.dst.k = "cast"
         b2 == IF cast THEN Without(r.body, {BitCast(c.dst.p)}) ELSE r.body
     IN IF r.why # ""
        THEN /\ body' = r.body
             /\ mutated' = (mutated \/ r.body # body)
             /\ Stop(r.why, c.id)
             /\ UNCHANGED <<calls, lowered, erased>>
        ELSE /\ body' = b2
             /\ mutated' = TRUE
             /\ erased' = IF cast THEN Append(erased, c.dst.p) ELSE erased
             /\ lowered' = lowered \cup {c.id}
             /\ calls' = Tail(calls)
             /\ IF cast /\ CastUsed(b2, c.dst.p) /\ ~ndebug
                THEN Stop("uses-remain", c.id)
                ELSE UNCHANGED <<pc, why, culprit>>
  /\ UNCHANGED <<ndebug, mvars, fvars, funcs, input, Changed, changed, work, fi, cur,
                 forget, result, lastMatch, interleaved>>

\* The end of the body of  for (auto &F : M)  for an llvm.memset declaration.
MemsetEndF ==
  /\ pc = "ms_calls"
  /\ calls = <<>>
  /\ cur' = NoFunc
  /\ fi' = fi + 1
  /\ pc' = "memset"
  /\ UNCHANGED <<ndebug, mvars, fvars, funcs, body, input, Changed, changed, work,
                 calls, forget, result, mutated, erased, lowered, culprit, why,
                 lastMatch, interleaved>>

\* Line 203, and line 63 of runOnModule.
MemsetReturn ==
  /\ pc = "memset"
  /\ fi > Len(funcs)
  /\ Changed' = (Changed \/ changed)
  /\ changed' = FALSE
  /\ fi' = 1
  /\ pc' = "memcpy"
  /\ UNCHANGED <<ndebug, mvars, fvars, funcs, body, input, work, cur, calls, forget,
                 result, mutated, erased, lowered, culprit, why, lastMatch,
                 interleaved>>

(***************************************************************************)
(* replaceMemcpy (lines 206-422).                                          *)
(***************************************************************************)
\* The checks of lines 266-319 on call site c: the reason they stop the run,
\* or "", and what match_types left in its arguments.
ValidateCopy(c, nd) ==
  IF c.dst.k # "cast" \/ c.src.k # "cast"
  THEN [why |-> "nocast", m |-> MatchStart("i8", "i8")]
  ELSE LET r == MatchTypes(PointeeOf(c.dst.p), PointeeOf(c.src.p), c.n, nd)
       IN [m |-> r,
           why |->
             IF r.st = "abort" THEN "shape"
             ELSE IF r.st = "hang" THEN "hang"
             ELSE IF nd THEN ""
             ELSE IF r.dst # r.src THEN "shape"
             ELSE IF c.n % (SizeInBits(r.dst) \div 8) # 0 THEN "uneven"
             ELSE IF ~(c.align >= ABIAlign(r.dst)) THEN "align"
             ELSE IF ~(0 = c.align % ABIAlign(r.dst)) THEN "align"
             ELSE ""]

\* The first of the call sites ids that a check stops at (0: none).
RECURSIVE FirstBadCopy(_, _)
FirstBadCopy(ids, nd) ==
  IF ids = <<>> THEN 0
  ELSE IF ValidateCopy(Site(Head(ids)), nd).why # "" THEN Head(ids)
  ELSE FirstBadCopy(Tail(ids), nd)

\* GetElementPtrInst::getIndexedType: the type the indices path address from
\* a pointer to t; "" when a struct index is out of range.
RECURSIVE GepType(_, _)
GepType(t, path) ==
  IF Len(path) <= 1 THEN t
  ELSE IF ~CanDescend(t) THEN ""
  ELSE IF TypeKind(t) = "struct" /\ path[2] + 1 > Len(TypeElems(t)) THEN ""
  ELSE GepType(IF TypeKind(t) = "struct" THEN TypeElems(t)[path[2] + 1]
               ELSE TypeElems(t)[1],
               Tail(path))

Zeros(n) == [i \in 1 .. n |-> 0]

\* Function::Create(NewFType, F.getLinkage(), SPIRVIntrinsic, &M): a new
\* function at the end of the module's function list.
CopyFn(fs) == Fn(CopyMemoryFunction, Len(Named(fs, CopyMemoryFunction)))

CopyCall(f, c, path, t) ==
  [Blank EXCEPT !.op = "call", !.callee = f, !.dst = Ref("ptr", c.dst.p),
                !.src = Ref("ptr", c.src.p), !.align = c.align, !.path = path,
                !.ty = t, !.origin = c.id]

\* Lines 380-402 from iteration i: the two address computations and the call
\* of each iteration, up to the first address computation that has no type.
RECURSIVE CopyElems(_, _, _, _, _)
CopyElems(f, c, r, i, count) ==
  LET sp == Zeros(r.ns) \o <<i>>
      dp == Zeros(r.nd) \o <<i>>
      st == GepType(PointeeOf(c.src.p), sp)
      dt == GepType(PointeeOf(c.dst.p), dp)
  IN IF i >= count THEN <<>>
     ELSE IF st = "" THEN <<>>
     ELSE IF dt = "" THEN <<Gep(c.src.p, sp, st, c.id)>>
     ELSE <<Gep(c.src.p, sp, st, c.id), Gep(c.dst.p, dp, dt, c.id),
            CopyCall(f, c, dp, dt)>>
          \o CopyElems(f, c, r, i + 1, count)

\* Some iteration of lines 380-402 computes an address that has no type.
CopyBadGep(c, r, count) ==
  \E i \in 0 .. count - 1 :
     \/ GepType(PointeeOf(c.src.p), Zeros(r.ns) \o <<i>>) = ""
     \/ GepType(PointeeOf(c.dst.p), Zeros(r.nd) \o <<i>>) = ""

\* Lines 326-406 on call site c: the copy calls inserted before it, the copy
\* function created, the call site erased.
MemcpyLower(fs, b, c, nd) ==
  LET r == MatchTypes(PointeeOf(c.dst.p), PointeeOf(c.src.p), c.n, nd)
      f == CopyFn(fs)
      count == c.n \div (SizeInBits(r.dst) \div 8)
  IN IF r.ns = 0 /\ r.nd = 0
     THEN [funcs |-> Append(fs, f), why |-> "",
           body |-> ReplaceCall(b, c.id,
                      <<CopyCall(f, c, <<>>, PointeeOf(c.dst.p))>>)]
     ELSE IF CopyBadGep(c, r, count)
     THEN [funcs |-> Append(fs, f), why |-> "badgep",
           body |-> InsertBefore(b, c.id, CopyElems(f, c, r, 0, count))]
     ELSE [funcs |-> Append(fs, f), why |-> "",
           body |-> ReplaceCall(b, c.id, CopyElems(f, c, r, 0, count))]

\* for (auto &F : M): F is not an llvm.memcpy declaration.
MemcpySkip ==
  /\ pc = "memcpy"
  /\ fi <= Len(funcs)
  /\ ~StartsWith(funcs[fi], "llvm.memcpy")
  /\ fi' = fi + 1
  /\ UNCHANGED <<ndebug, mvars, fvars, funcs, body, input, pc, Changed, changed, work,
                 cur, calls, forget, result, mutated, erased, lowered, culprit, why,
                 lastMatch, interleaved>>

\* Lines 264-323 stop at a call site: a failed assert, a null dereference
\* (no bitcast), or a match_types that aborts or never returns.
MemcpyBadCall ==
  /\ pc = "memcpy"
  /\ fi <= Len(funcs)
  /\ StartsWith(funcs[fi], "llvm.memcpy")
  /\ LET bad == FirstBadCopy(CallsTo(body, funcs[fi]), ndebug)
         v == ValidateCopy(Site(bad), ndebug)
     IN /\ bad # 0
        /\ lastMatch' = v.m
        /\ culprit' = bad
        /\ why' = v.why
        /\ pc' = IF v.why = "hang" THEN "hang" ELSE "aborted"
  /\ UNCHANGED <<ndebug, mvars, fvars, funcs, body, input, Changed, changed, work, fi,
                 cur, calls, forget, result, mutated, erased, lowered, interleaved>>

\* Reading through an operand whose bitcast replaceMemset erased is a use
\* after free: it may crash.
MemcpyUseAfterFree ==
  /\ pc = "memcpy"
  /\ fi <= Len(funcs)
  /\ StartsWith(funcs[fi], "llvm.memcpy")
  /\ LET users == CallsTo(body, funcs[fi])
     IN \E k \in 1 .. Len(users) :
          /\ FirstBadCopy(SubSeq(users, 1, k), ndebug) = 0
          /\ \E x \in Operands(Site(users[k])) :
               x.k = "cast" /\ ~CastPresent(body, x.p)
          /\ Stop("crash", users[k])
  /\ UNCHANGED <<ndebug, mvars, fvars, funcs, body, input, Changed, changed, work, fi,
                 cur, calls, forget, result, mutated, erased, lowered, lastMatch,
                 interleaved>>

\* Lines 264-323: every call site of F passes the checks and is collected.
MemcpyScan ==
  /\ pc = "memcpy"
  /\ fi <= Len(funcs)
  /\ StartsWith(funcs[fi], "llvm.memcpy")
  /\ FirstBadCopy(CallsTo(body, funcs[fi]), ndebug) = 0
  /\ cur' = funcs[fi]
  /\ calls' = CallsTo(body, funcs[fi])
  /\ forget' = {}
  /\ pc' = "mc_calls"
  /\ UNCHANGED <<ndebug, mvars, fvars, funcs, body, input, Changed, changed, work, fi,
                 result, mutated, erased, lowered, culprit, why, lastMatch,
                 interleaved>>

\* Lines 325-414, one call site; the module's function list grows while
\* for (auto &F : M) walks it.
MemcpyLowerCall ==
  /\ pc = "mc_calls"
  /\ calls # <<>>
  /\ LET c == Site(Head(calls))
         r == MemcpyLower(funcs, body, c, ndebug)
     IN /\ funcs' = r.funcs
        /\ body' = r.body
        /\ interleaved' = (interleaved \/ r.funcs # funcs)
        /\ lastMatch' = MatchTypes(PointeeOf(c.dst.p), PointeeOf(c.src.p), c.n, ndebug)
        /\ mutated' = TRUE
        /\ IF r.why # ""
           THEN /\ Stop(r.why, c.id)
                /\ UNCHANGED <<calls, lowered, forget>>
           ELSE /\ lowered' = lowered \cup {c.id}
                /\ forget' = forget \cup {c.dst.p, c.src.p}
                /\ calls' = Tail(calls)
                /\ UNCHANGED <<pc, why, culprit>>
  /\ UNCHANGED <<ndebug, mvars, fvars, input, Changed, changed, work, fi, cur, result,
                 erased>>

\* Lines 415-417, one bitcast of BitCastsToForget, in the set's own order.
MemcpyForgetOne ==
  /\ pc = "mc_calls"
  /\ calls = <<>>
  /\ \E p \in forget :
       /\ body' = Without(body, {BitCast(p)})
       /\ erased' = Append(erased, p)
       /\ forget' = forget \ {p}
       /\ mutated' = TRUE
       /\ IF CastUsed(body', p) /\ ~ndebug
          THEN Stop("uses-remain", 0)
          ELSE UNCHANGED <<pc, why, culprit>>
  /\ UNCHANGED <<ndebug, mvars, fvars, funcs, input, Changed, changed, work, fi, cur,
                 calls, result, lowered, lastMatch, interleaved>>

\* The end of the body of  for (auto &F : M)  for an llvm.memcpy declaration.
MemcpyEndF ==
  /\ pc = "mc_calls"
  /\ calls = <<>>
  /\ forget = {}
  /\ cur' = NoFunc
  /\ fi' = fi + 1
  /\ pc' = "memcpy"
  /\ UNCHANGED <<ndebug, mvars, fvars, funcs, body, input, Changed, changed, work,
                 calls, forget, result, mutated, erased, lowered, culprit, why,
                 lastMatch, interleaved>>

\* Line 421, and lines 64-66 of runOnModule.
MemcpyReturn ==
  /\ pc = "memcpy"
  /\ fi > Len(funcs)
  /\ Changed' = (Changed \/ changed)
  /\ result' = IF Changed' THEN "true" ELSE "false"
  /\ pc' = "done"
  /\ UNCHANGED <<ndebug, mvars, fvars, funcs, body, input, changed, work, fi, cur,
                 calls, forget, mutated, erased, lowered, culprit, why, lastMatch,
                 interleaved>>

Next ==
  \/ LifetimeCollect \/ LifetimeRemove \/ LifetimeReturn
  \/ FshlCollect \/ FshlSnapshot \/ FshlBadWidth \/ FshlLowerCall
  \/ FshlEraseDecl \/ FshlReturn
  \/ MemsetSkip \/ MemsetBadFill \/ MemsetScan \/ MemsetUseAfterFree
  \/ MemsetLowerCall \/ MemsetEndF \/ MemsetReturn
  \/ MemcpySkip \/ MemcpyBadCall \/ MemcpyUseAfterFree \/ MemcpyScan
  \/ MemcpyLowerCall \/ MemcpyForgetOne \/ MemcpyEndF \/ MemcpyReturn

Spec == Init /\ [][Next]_vars

SpecMatch == InitMatch /\ [][NextMatch]_vars

SpecFshl == InitFshl /\ [][NextFshl]_vars

(***************************************************************************)
(* Properties.                                                             *)
(***************************************************************************)
\* The instructions of b emitted for call site id, in order.
RECURSIVE EmittedFor(_, _)
EmittedFor(b, id) ==
  IF b = <<>> THEN <<>>
  ELSE IF Head(b).origin = id THEN <<Head(b)>> \o EmittedFor(Tail(b), id)
  ELSE EmittedFor(Tail(b), id)

\* The instructions of q with operation op, in order.
RECURSIVE OfOp(_, _)
OfOp(q, op) ==
  IF q = <<>> THEN <<>>
  ELSE IF Head(q).op = op THEN <<Head(q)>> \o OfOp(Tail(q), op)
  ELSE OfOp(Tail(q), op)

\* The last index of each instruction of q.
LastIndices(q) == [i \in DOMAIN q |-> q[i].path[Len(q[i].path)]]

UpTo(n) == [i \in 1 .. n |-> i - 1]

RECURSIVE BytesCopied(_)
BytesCopied(q) ==
  IF q = <<>> THEN 0 ELSE AllocSize(Head(q).ty) + BytesCopied(Tail(q))

IsCallTo(c, prefix) == c.op = "call" /\ c.callee.prefix = prefix

\* C1: once runOnModule has returned, the module holds no declaration and no
\* call site of llvm.lifetime.*, llvm.fshl*, llvm.memset* or llvm.memcpy*.
C1_NoResidualReferences ==
  pc = "done" =>
    /\ \A k \in DOMAIN funcs : funcs[k].prefix \notin Families
    /\ \A k \in DOMAIN body :
         body[k].op = "call" => body[k].callee.prefix \notin Families

\* C2: runOnModule returns true exactly when the run changed the module.
C2_ReturnsWhetherChanged ==
  pc = "done" => ((result = "true") <=> mutated)

\* shift mod w, from the number shift denotes: its bits below log2(w).
ShiftModWidth(v, w) == ToNat({i \in v : i \in BitPositions /\ 2 ^ i < w})

\* ((hi << s) | (lo >>> (w - s))) truncated to w bits, bit by bit.
FunnelShiftLeft(hi, lo, s, w) ==
  {i \in AllOnes(w) : (i >= s /\ (i - s) \in hi) \/ (i + (w - s)) \in lo}

\* C3 as stated: for w in {8,16,32,64} the emitted sequence computes
\* ((hi << (shift mod w)) | (lo >>> (w - shift mod w))) truncated to w bits,
\* and it computes lo when shift mod w = 0.
C3_FunnelShiftValue ==
  (fpc = "done" /\ ValidFshlWidth(fw)) =>
    /\ fval.or = FunnelShiftLeft(fhi, flo, ShiftModWidth(fshift, fw), fw)
    /\ ShiftModWidth(fshift, fw) = 0 => fval.or = flo

\* What the emitted sequence does compute (C3's two cases apart): for w in
\* {8,16,32,64} and shift mod w # 0 it is ((hi << (shift mod w)) |
\* (lo >>> (w - shift mod w))) truncated to w bits with no poison; when
\* shift mod w = 0 it shifts lo right by w itself, and its result is poison.
C3_FunnelShiftValueNonZeroShift ==
  (fpc = "done" /\ ValidFshlWidth(fw)) =>
    /\ ShiftModWidth(fshift, fw) # 0 =>
         /\ fval.or = FunnelShiftLeft(fhi, flo, ShiftModWidth(fshift, fw), fw)
         /\ fpoison = {}
    /\ ShiftModWidth(fshift, fw) = 0 =>
         /\ fval.sub = ToBits(fw)
         /\ fpoison = {"lshr", "or"}

\* A call with shift mod w = 0 whose lowered value is not lo.
C3_ZeroShiftReached ==
  /\ fpc = "done" /\ ValidFshlWidth(fw)
  /\ ShiftModWidth(fshift, fw) = 0
  /\ fshift # {}
  /\ fval.or # flo

\* C4: a lowered zero fill of N bytes over E, N a multiple of sizeOf(E), has
\* left exactly N/sizeOf(E) stores, at elements 0 .. N/sizeOf(E)-1 in
\* increasing order, nothing at all when that count is 0, and no call.
C4_ZeroFillStores ==
  \A id \in lowered :
    LET c == Site(id)
        size == AllocSize(PointeeOf(c.dst.p))
        stores == OfOp(EmittedFor(body, id), "store")
    IN (IsCallTo(c, "llvm.memset") /\ c.fill = 0 /\ c.n % size = 0) =>
         /\ LastIndices(stores) = UpTo(c.n \div size)
         /\ \A k \in DOMAIN stores : stores[k].ty = PointeeOf(c.dst.p)
         /\ c.n \div size = 0 => EmittedFor(body, id) = <<>>
         /\ PosOf(body, id) = 0

\* The copy of 8 bytes from a {i32, i32} into a [8 x i8].
AggregateToBytes(c) ==
  /\ IsCallTo(c, "llvm.memcpy")
  /\ c.dst.k = "cast" /\ c.src.k = "cast"
  /\ PointeeOf(c.src.p) = "s2i32" /\ PointeeOf(c.dst.p) = "a8i8"
  /\ c.n = 8

\* C5 as stated: the copy of 8 bytes from a {i32, i32} into a [8 x i8] is not
\* what the run stops at, and once lowered it is 8 copy calls on i8 elements
\* 0 .. 7 in increasing order.
C5_AggregateToBytesConverges ==
  \A c \in Range(input) : AggregateToBytes(c) =>
    /\ culprit # c.id
    /\ c.id \in lowered =>
         LET copies == OfOp(EmittedFor(body, c.id), "call")
         IN /\ LastIndices(copies) = UpTo(8)
            /\ \A k \in DOMAIN copies : copies[k].ty = "i8"

\* C5 amended: the copy of 8 bytes from a {i32, i32} into a [8 x i8] is never
\* lowered and the run never returns: when the checks reach it, match_types
\* has descended the source to i32 and the destination to i8 (one level each),
\* cannot descend the i32, and aborts (or, with NDEBUG, loops for ever); no
\* instruction is emitted for it.
C5_AggregateToBytesStops ==
  \A c \in Range(input) : AggregateToBytes(c) =>
    /\ pc # "done"
    /\ c.id \notin lowered
    /\ EmittedFor(body, c.id) = <<>>
    /\ culprit = c.id =>
         /\ pc = IF ndebug THEN "hang" ELSE "aborted"
         /\ why = IF ndebug THEN "hang" ELSE "shape"
         /\ lastMatch.dst = "i8" /\ lastMatch.src = "i32"
         /\ lastMatch.nd = 1 /\ lastMatch.ns = 1

\* The run has stopped at such a copy.
C5_StoppedAtAggregateToBytes ==
  \E c \in Range(input) :
    AggregateToBytes(c) /\ culprit = c.id /\ pc = "aborted" /\ why = "shape"

\* The fatal violations of the pass.
Fatal == {"width", "fill", "uneven", "shape", "align", "nocast"}

\* C6 as stated: when the run aborts on a fatal violation, nothing has been
\* erased, rewritten or inserted.
C6_AbortLeavesModuleUntouched ==
  (pc = "aborted" /\ why \in Fatal) =>
    /\ ~mutated
    /\ body = InputBody(input)
    /\ funcs = InputFuncs(input)

\* C6 amended: when the run aborts on a fatal violation it has returned
\* nothing, and the offending call site and its declaration are still in the
\* module as they came, with nothing emitted for that call site; when the
\* violation is a fill value or is one of a block copy, no call site of the
\* same declaration has been lowered.  (Call sites processed before it may
\* have been erased or rewritten.)
C6_AbortLeavesOffenderUntouched ==
  (pc = "aborted" /\ why \in Fatal) =>
    /\ result = "none"
    /\ culprit # 0
    /\ PosOf(body, culprit) # 0
    /\ body[PosOf(body, culprit)] = Site(culprit)
    /\ EmittedFor(body, culprit) = <<>>
    /\ \E k \in DOMAIN funcs : funcs[k] = Site(culprit).callee
    /\ (why = "fill" \/ IsCallTo(Site(culprit), "llvm.memcpy")) =>
         \A c \in Range(input) :
           c.callee = Site(culprit).callee => c.id \notin lowered

\* An abort on a fatal violation after an earlier call site was lowered.
C6_AbortedAfterLowering ==
  /\ pc = "aborted" /\ why \in Fatal
  /\ mutated /\ lowered # {}
  /\ \E id \in lowered : Site(id).callee = Site(culprit).callee

\* An iteration of match_types' first loop descended the source, one level.
SrcDescended ==
  /\ m'.src = DescendType(m.src) /\ m'.ns = m.ns + 1
  /\ m'.dst = m.dst /\ m'.nd = m.nd /\ m'.st = "match"

\* An iteration of match_types' first loop descended the destination.
DstDescended ==
  /\ m'.dst = DescendType(m.dst) /\ m'.nd = m.nd + 1
  /\ m'.src = m.src /\ m'.ns = m.ns /\ m'.st = "match"

\* C7 as stated: an iteration of the type-match loop descends the side whose
\* size is >= the other's and counts it; on equal sizes, the destination.
C7_TieDescendsDestination ==
  [][MatchIter =>
       /\ (SizeInBits(m.src) > SizeInBits(m.dst) /\ CanDescend(m.src)) => SrcDescended
       /\ (SizeInBits(m.dst) > SizeInBits(m.src) /\ CanDescend(m.dst)) => DstDescended
       /\ SizeInBits(m.dst) = SizeInBits(m.src) => DstDescended]_vars

\* C7 amended: an iteration of the type-match loop descends the side whose
\* size is >= the other's and counts it; on equal sizes, the source.
C7_TieDescendsSource ==
  [][MatchIter =>
       /\ (SizeInBits(m.src) > SizeInBits(m.dst) /\ CanDescend(m.src)) => SrcDescended
       /\ (SizeInBits(m.dst) > SizeInBits(m.src) /\ CanDescend(m.dst)) => DstDescended
       /\ SizeInBits(m.dst) = SizeInBits(m.src) => SrcDescended]_vars

\* An iteration on two equal sizes has run.
C7_TieReached == mtie /\ mlast = "src" /\ m.ns >= 1 /\ m.st = "match"

\* C8: the module's function list never changes while a loop walks it.
C8_NoMutationWhileIterating == ~interleaved

\* C9: the copy calls emitted for a lowered block copy copy, together, as
\* many bytes as the call site asked for.
C9_CopiesCoverByteCount ==
  \A id \in lowered :
    IsCallTo(Site(id), "llvm.memcpy") =>
      BytesCopied(OfOp(EmittedFor(body, id), "call")) = Site(id).n

\* C10: no instruction uses an erased bitcast or calls an erased
\* declaration, and no bitcast is erased twice.
C10_NoDanglingNoDoubleErase ==
  /\ \A k \in DOMAIN body : \A x \in Operands(body[k]) :
       x.k = "cast" => CastPresent(body, x.p)
  /\ \A k \in DOMAIN body :
       body[k].op = "call" => \E j \in DOMAIN funcs : funcs[j] = body[k].callee
  /\ \A i, j \in DOMAIN erased : i # j => erased[i] # erased[j]


=============================================================================
